---- MODULE Spec2Model ----
(***************************************************************************)
(* KGTest: the knowledge-graph builder of src/graph_builder.               *)
(*                                                                         *)
(* A KnowledgeGraphBuilder holds a table of component records (df), an     *)
(* insertion-ordered dictionary of nodes, a list of edges and the          *)
(* assembled directed graph.  build() fills them from the table; the       *)
(* queries read them.  Python dictionaries are modelled as sequences of    *)
(* entries with pairwise distinct keys (insertion order is kept), lists as *)
(* sequences, f-strings as string concatenation.                           *)
(*                                                                         *)
(* The layout engines of src/visualization/layout_engines.py are given a   *)
(* graph and compute a position for some of its nodes; engines holds the   *)
(* state of one engine of each strategy.                                   *)
(*                                                                         *)
(* Of a row the fields that decide identifiers, edges, names and sizes are *)
(* kept: IDNUM, NAME, C, FunctionClass, PhysicalClass, ChipL.  LNAME, MFR, *)
(* MPN, ChipW and ChipH are copied into the Component node and never read  *)
(* again.  ChipL is a whole number of millimetres.                         *)
(***************************************************************************)
EXTENDS Integers, Sequences, FiniteSets, TLC

VARIABLES df, dfCols, nodes, edges, graph, buildCount, ret, err, engines

vars == <<df, dfCols, nodes, edges, graph, buildCount, ret, err, engines>>

(***************************************************************************)
(* Bounds of the model.                                                    *)
(***************************************************************************)
MaxRows == 2
MaxBuilds == 2

(***************************************************************************)
(* Input values.  IDNUM values may repeat between rows.  The package field *)
(* is a string that may be empty.  The class codes are integers; of each   *)
(* kind one is in the name table of config.py and one is not.  A part has  *)
(* one of three (FunctionClass, PhysicalClass) pairs, so that rows can     *)
(* share either code and differ in the other.  The pair stands for the     *)
(* kind of part, which has its NAME (one of them longer than 15            *)
(* characters) and its ChipL.                                              *)
(***************************************************************************)
Idnums == {1, 2}
PackageValues == {"", "0402", "0603"}
FunctionCodes == {1, 3}
PhysicalCodes == {1, 4}
ClassPairs == {<<1, 1>>, <<3, 1>>, <<3, 4>>}

Names == {"R_10K", "CAP_CERAMIC_100NF_X7R"}
ChipLs == {1, 2}

PartName(fc, pc) == IF <<fc, pc>> = <<3, 4>> THEN "CAP_CERAMIC_100NF_X7R" ELSE "R_10K"
PartChipL(fc, pc) == IF <<fc, pc>> = <<1, 1>> THEN 2 ELSE 1

Rows == {r \in [IDNUM : Idnums, NAME : Names, C : PackageValues,
                FunctionClass : FunctionCodes, PhysicalClass : PhysicalCodes,
                ChipL : ChipLs] :
            /\ <<r.FunctionClass, r.PhysicalClass>> \in ClassPairs
            /\ r.NAME = PartName(r.FunctionClass, r.PhysicalClass)
            /\ r.ChipL = PartChipL(r.FunctionClass, r.PhysicalClass)}

RECURSIVE SeqsUpTo(_, _)
SeqsUpTo(S, n) ==
    IF n = 0 THEN {<<>>}
    ELSE LET shorter == SeqsUpTo(S, n - 1)
         IN shorter \cup {Append(s, x) : s \in {t \in shorter : Len(t) = n - 1}, x \in S}

Range(s) == {s[i] : i \in 1..Len(s)}

\* the list with elements f[1], ..., f[n]
List(f) == SubSeq(f, 1, Len(f))

(***************************************************************************)
(* entity_relations.py: the enumerations.  A member is named by its        *)
(* Python name; Value is the member's .value.                              *)
(***************************************************************************)
NodeType == {"COMPONENT", "PACKAGE", "FUNCTION_CLASS", "PHYSICAL_CLASS"}

NodeTypeValue(nt) ==
    CASE nt = "COMPONENT" -> "Component"
      [] nt = "PACKAGE" -> "Package"
      [] nt = "FUNCTION_CLASS" -> "FunctionClass"
      [] nt = "PHYSICAL_CLASS" -> "PhysicalClass"

RelationType == {"USES_PACKAGE", "HAS_FUNCTION", "HAS_PHYSICAL_TYPE"}

RelationTypeValue(rt) ==
    CASE rt = "USES_PACKAGE" -> "usesPackage"
      [] rt = "HAS_FUNCTION" -> "hasFunction"
      [] rt = "HAS_PHYSICAL_TYPE" -> "hasPhysicalType"

(***************************************************************************)
(* config.py: the code -> name tables, and dict.get with a default.        *)
(***************************************************************************)
FUNCTION_CLASS_MAP ==
    [c \in {1, 2, 7, 11, 12, 14} |->
        CASE c = 1 -> "Resistor"
          [] c = 2 -> "Capacitor"
          [] c = 7 -> "Inductor"
          [] c = 11 -> "LED"
          [] c = 12 -> "Diode"
          [] c = 14 -> "IC/Transistor"]

PHYSICAL_CLASS_MAP ==
    [c \in {1, 2, 3} |->
        CASE c = 1 -> "Passive"
          [] c = 2 -> "Active"
          [] c = 3 -> "Connector"]

MapGet(m, k, default) == IF k \in DOMAIN m THEN m[k] ELSE default

(***************************************************************************)
(* Identifiers, as the f-strings build them.                               *)
(***************************************************************************)
CompId(idnum) == "COMP_" \o ToString(idnum)
PkgId(package_name) == "PKG_" \o package_name
FuncId(func_class) == "FUNC_" \o ToString(func_class)
PhyId(phy_class) == "PHY_" \o ToString(phy_class)

(***************************************************************************)
(* entity_relations.py: EntityFactory.                                     *)
(***************************************************************************)
\* name[:15] if len(name) > 15 else name, on the names of the model
First15(name) ==
    IF name = "CAP_CERAMIC_100NF_X7R" THEN "CAP_CERAMIC_100" ELSE name

\* variant: the size does not depend on the length of the chip
create_component_node_flat(idnum, name, chip_l) ==
    [id |-> CompId(idnum), name |-> name, node_type |-> "COMPONENT",
     label |-> First15(name),
     properties |-> [idnum |-> idnum, chip_l |-> chip_l, size |-> 20]]

create_component_node(idnum, name, chip_l) ==
    [id |-> CompId(idnum), name |-> name, node_type |-> "COMPONENT",
     label |-> First15(name),
     properties |-> [idnum |-> idnum, chip_l |-> chip_l, size |-> 20 + chip_l * 5]]

create_package_node(package_name) ==
    [id |-> PkgId(package_name), name |-> package_name, node_type |-> "PACKAGE",
     label |-> package_name, properties |-> [size |-> 30]]

create_function_class_node(func_class, class_name) ==
    [id |-> FuncId(func_class), name |-> class_name, node_type |-> "FUNCTION_CLASS",
     label |-> class_name, properties |-> [class_code |-> func_class, size |-> 40]]

create_physical_class_node(phy_class, class_name) ==
    [id |-> PhyId(phy_class), name |-> class_name, node_type |-> "PHYSICAL_CLASS",
     label |-> class_name, properties |-> [class_code |-> phy_class, size |-> 40]]

\* variant: the ends exchanged
create_edge_reversed(source, target, relation) ==
    [source |-> target, target |-> source, relation |-> relation, weight |-> 1]

\* No check of the relation: the dataclass stores whatever it is given.
create_edge(source, target, relation) ==
    [source |-> source, target |-> target, relation |-> relation, weight |-> 1]

\* variant: the label is left out
NodeToDict_nolabel(n) ==
    [k \in ((DOMAIN n) \ {"node_type", "properties", "label"}) \cup {"type"} \cup DOMAIN n.properties |->
        IF k = "type" THEN NodeTypeValue(n.node_type)
        ELSE IF k \in DOMAIN n.properties THEN n.properties[k]
        ELSE n[k]]

\* Node.to_dict: the enum member becomes its value, the properties are merged in.
NodeToDict(n) ==
    [k \in ((DOMAIN n) \ {"node_type", "properties"}) \cup {"type"} \cup DOMAIN n.properties |->
        IF k = "type" THEN NodeTypeValue(n.node_type)
        ELSE IF k \in DOMAIN n.properties THEN n.properties[k]
        ELSE n[k]]

\* Edge.to_dict
EdgeToDict(e) ==
    [source |-> e.source, target |-> e.target,
     relation |-> RelationTypeValue(e.relation), weight |-> e.weight]

(***************************************************************************)
(* Python dict keyed by the entry's id.  Assigning the entries of a list   *)
(* in order leaves the old keys in their places, appends the new keys in   *)
(* the order of their first assignment, and leaves under every key the     *)
(* last entry assigned to it.                                              *)
(***************************************************************************)
Keys(d) == {d[i].id : i \in 1..Len(d)}

Indices(s) == List([i \in 1..Len(s) |-> i])

PutAll(d, ns) ==
    LET all == d \o ns
        IsFirst(i) == \A j \in 1..(i - 1) : all[j].id # all[i].id
        Last(i) == CHOOSE j \in i..Len(all) :
                      /\ all[j].id = all[i].id
                      /\ \A k \in (j + 1)..Len(all) : all[k].id # all[i].id
        firsts == SelectSeq(Indices(all), IsFirst)
    IN List([k \in 1..Len(firsts) |-> all[Last(firsts[k])]])

DictPut(d, n) == PutAll(d, <<n>>)

DictGet(d, k) == LET i == CHOOSE j \in 1..Len(d) : d[j].id = k IN d[i]

\* pandas Series.unique(): the distinct values in order of first appearance
Unique(s) ==
    LET IsFirst(i) == \A j \in 1..(i - 1) : s[j] # s[i]
        firsts == SelectSeq(Indices(s), IsFirst)
    IN List([k \in 1..Len(firsts) |-> s[firsts[k]]])

Column(rows, field) == List([i \in 1..Len(rows) |-> rows[i][field]])

\* Python truth value of a package string
Truthy(pkg) == pkg # ""

(***************************************************************************)
(* knowledge_graph.py: the steps of build().  Each takes the dictionary or *)
(* list it extends and the rows of the table.                              *)
(***************************************************************************)
\* variant: the loop stops one row short
create_component_nodes_short(ns, rows) ==
    PutAll(ns, List([i \in 1..(Len(rows) - 1) |->
        create_component_node(rows[i].IDNUM, rows[i].NAME, rows[i].ChipL)]))

\* one node per row, stored under its id
create_component_nodes(ns, rows) ==
    PutAll(ns, List([i \in 1..Len(rows) |->
        create_component_node(rows[i].IDNUM, rows[i].NAME, rows[i].ChipL)]))

\* variant: no test of the package value
create_package_nodes_unfiltered(ns, rows) ==
    LET packages == Unique(Column(rows, "C"))
    IN PutAll(ns, List([i \in 1..Len(packages) |-> create_package_node(packages[i])]))

\* one node per distinct truthy value of column C
create_package_nodes(ns, rows) ==
    LET packages == Unique(Column(rows, "C"))
        kept == SelectSeq(packages, Truthy)
    IN PutAll(ns, List([i \in 1..Len(kept) |-> create_package_node(kept[i])]))

FunctionClassName(fc) ==
    MapGet(FUNCTION_CLASS_MAP, fc, "Class_" \o ToString(fc))

\* variant: nodes only for the codes the table names
create_function_class_nodes_mapped(ns, rows) ==
    LET InTable(fc) == fc \in DOMAIN FUNCTION_CLASS_MAP
        func_classes == SelectSeq(Unique(Column(rows, "FunctionClass")), InTable)
    IN PutAll(ns, List([i \in 1..Len(func_classes) |->
            create_function_class_node(func_classes[i], FunctionClassName(func_classes[i]))]))

\* one node per distinct value of column FunctionClass
create_function_class_nodes(ns, rows) ==
    LET func_classes == Unique(Column(rows, "FunctionClass"))
    IN PutAll(ns, List([i \in 1..Len(func_classes) |->
            create_function_class_node(func_classes[i], FunctionClassName(func_classes[i]))]))

\* variant: the placeholder of the function classes
PhysicalClassName_class(pc) ==
    MapGet(PHYSICAL_CLASS_MAP, pc, "Class_" \o ToString(pc))

PhysicalClassName(pc) ==
    MapGet(PHYSICAL_CLASS_MAP, pc, "Physical_" \o ToString(pc))

\* one node per distinct value of column PhysicalClass
create_physical_class_nodes(ns, rows) ==
    LET phy_classes == Unique(Column(rows, "PhysicalClass"))
    IN PutAll(ns, List([i \in 1..Len(phy_classes) |->
            create_physical_class_node(phy_classes[i], PhysicalClassName(phy_classes[i]))]))

\* variant: the package edge is made for every row
RowEdges_unfiltered(row) ==
    LET comp_id == CompId(row.IDNUM)
    IN <<create_edge(comp_id, PkgId(row.C), "USES_PACKAGE"),
         create_edge(comp_id, FuncId(row.FunctionClass), "HAS_FUNCTION"),
         create_edge(comp_id, PhyId(row.PhysicalClass), "HAS_PHYSICAL_TYPE")>>

\* the edges one row contributes, in the order they are appended
RowEdges(row) ==
    LET comp_id == CompId(row.IDNUM)
        pkg == IF Truthy(row.C)
               THEN <<create_edge(comp_id, PkgId(row.C), "USES_PACKAGE")>>
               ELSE <<>>
    IN pkg \o <<create_edge(comp_id, FuncId(row.FunctionClass), "HAS_FUNCTION"),
                create_edge(comp_id, PhyId(row.PhysicalClass), "HAS_PHYSICAL_TYPE")>>

\* appends every row's edges to the list it is given
RECURSIVE create_relationships(_, _)
create_relationships(es, rows) ==
    IF rows = <<>> THEN es
    ELSE create_relationships(es \o RowEdges(Head(rows)), Tail(rows))

(***************************************************************************)
(* networkx.DiGraph as the builder uses it.  add_node stores the node's    *)
(* attributes under its key.  add_edge first adds either endpoint that is  *)
(* not yet a node (with no attributes), then stores the edge's attributes  *)
(* under (source, target), replacing those of an earlier edge between the  *)
(* same pair.                                                              *)
(***************************************************************************)
EmptyAttrs == [k \in {} |-> 0]

NoGraph == [built |-> FALSE, nodes |-> <<>>, edges |-> <<>>]

EmptyDiGraph == [built |-> TRUE, nodes |-> <<>>, edges |-> <<>>]

\* add_node for each node of the dictionary, under its id
AddNodes(g, ns) ==
    [g EXCEPT !.nodes = PutAll(g.nodes,
        List([i \in 1..Len(ns) |-> [id |-> ns[i].id, data |-> NodeToDict(ns[i])]]))]

\* the endpoints of the edges of a list in the order add_edge meets them
Endpoints(es) ==
    List([k \in 1..(2 * Len(es)) |->
        IF k % 2 = 1 THEN es[(k + 1) \div 2].source ELSE es[k \div 2].target])

\* add_edge for each edge of the list
AddEdges(g, es) ==
    LET Missing(key) == key \notin Keys(g.nodes)
        created == SelectSeq(Endpoints(es), Missing)
    IN [g EXCEPT
          !.nodes = PutAll(g.nodes,
              List([i \in 1..Len(created) |-> [id |-> created[i], data |-> EmptyAttrs]])),
          !.edges = PutAll(g.edges,
              List([i \in 1..Len(es) |->
                  [id |-> <<es[i].source, es[i].target>>,
                   source |-> es[i].source, target |-> es[i].target,
                   data |-> [relation |-> RelationTypeValue(es[i].relation),
                             weight |-> es[i].weight]]]))]

\* a fresh DiGraph, every node of the dictionary, then every edge of the list
build_networkx_graph(ns, es) == AddEdges(AddNodes(EmptyDiGraph, ns), es)

GraphNodeKeys(g) == Keys(g.nodes)
GraphEdgePairs(g) == {<<g.edges[i].source, g.edges[i].target>> : i \in 1..Len(g.edges)}

(***************************************************************************)
(* layout_engines.py: LayoutEngine.__init__.  An engine keeps the graph it *)
(* was given (the variable graph) and its own dictionary of positions,     *)
(* empty at first.  pc is the engine's place in calculate_layout, local    *)
(* the local variables of the call, ret what the last call returned.       *)
(***************************************************************************)
NoReturn == [op |-> "none"]

Strategies == {"HierarchicalLayout", "SpringLayout", "RadialLayout"}

NewEngine ==
    [pc |-> "idle", positions |-> EmptyAttrs, local |-> EmptyAttrs,
     ret |-> NoReturn, err |-> "none"]

NewEngines == [s \in Strategies |-> NewEngine]

(***************************************************************************)
(* The builder.                                                            *)
(***************************************************************************)

\* KnowledgeGraphBuilder(df): a table with its columns has any number of
\* rows; the table made from an empty record list has no columns at all.
Init ==
    /\ df \in SeqsUpTo(Rows, MaxRows)
    /\ dfCols \in IF df = <<>> THEN BOOLEAN ELSE {TRUE}
    /\ nodes = <<>>
    /\ edges = <<>>
    /\ graph = NoGraph
    /\ buildCount = 0
    /\ ret = NoReturn
    /\ err = "none"
    /\ engines = NewEngines

\* The builder is used by one caller, one call at a time.  A query changes
\* nothing but the value it hands back, so every call is applied to a builder
\* whose last call was the constructor or build().
AtRest == ret.op \in {"none", "build"}

\* build(): the six steps in order.  On a table without columns the first
\* step does nothing and the second fails on df['C'] with KeyError.
build ==
    /\ AtRest
    /\ buildCount < MaxBuilds
    /\ buildCount' = buildCount + 1
    /\ UNCHANGED <<df, dfCols, engines>>
    /\ IF ~dfCols
       THEN /\ nodes' = create_component_nodes(nodes, df)
            /\ UNCHANGED <<edges, graph>>
            /\ ret' = NoReturn
            /\ err' = "KeyError"
       ELSE LET n1 == create_component_nodes(nodes, df)
                n2 == create_package_nodes(n1, df)
                n3 == create_function_class_nodes(n2, df)
                n4 == create_physical_class_nodes(n3, df)
                e1 == create_relationships(edges, df)
            IN /\ nodes' = n4
               /\ edges' = e1
               /\ graph' = build_networkx_graph(n4, e1)
               /\ ret' = [op |-> "build"]
               /\ err' = "none"

(***************************************************************************)
(* knowledge_graph.py: the queries, as functions of the builder's fields.  *)
(***************************************************************************)
get_nodes_by_type(ns, node_type) ==
    LET Match(n) == n.node_type = node_type IN SelectSeq(ns, Match)

get_edges_by_relation(es, relation) ==
    LET Match(e) == e.relation = relation IN SelectSeq(es, Match)

\* the nodes reachable from S along edges taken in either direction
RECURSIVE WeakReach(_, _)
WeakReach(S, pairs) ==
    LET T == S \cup {p[2] : p \in {q \in pairs : q[1] \in S}}
                \cup {p[1] : p \in {q \in pairs : q[2] \in S}}
    IN IF T = S THEN S ELSE WeakReach(T, pairs)

number_weakly_connected_components(g) ==
    Cardinality({WeakReach({k}, GraphEdgePairs(g)) : k \in GraphNodeKeys(g)})

\* nx.density of a directed graph, m / (n (n - 1)), kept as <<numerator, denominator>>
density(g) ==
    LET n == Len(g.nodes)
        m == Len(g.edges)
    IN IF m = 0 \/ n <= 1 THEN <<0, 1>> ELSE <<m, n * (n - 1)>>

\* "if self.graph": a DiGraph is true when it has at least one node
GraphTruthy(g) == g.built /\ Len(g.nodes) > 0

get_statistics(ns, es, g) ==
    [total_nodes |-> Len(ns),
     total_edges |-> Len(es),
     node_types |-> [v \in {NodeTypeValue(nt) : nt \in NodeType} |->
                        Len(get_nodes_by_type(ns, CHOOSE nt \in NodeType : NodeTypeValue(nt) = v))],
     relation_types |-> [v \in {RelationTypeValue(rt) : rt \in RelationType} |->
                        Len(get_edges_by_relation(es, CHOOSE rt \in RelationType : RelationTypeValue(rt) = v))],
     network_metrics |-> IF GraphTruthy(g)
                         THEN [density |-> density(g),
                               is_connected |-> number_weakly_connected_components(g) = 1,
                               connected_components |-> number_weakly_connected_components(g)]
                         ELSE EmptyAttrs]

\* the sources of the usesPackage edges of the list that point at the package
get_subgraph_by_package(ns, es, package_name) ==
    LET pkg_id == PkgId(package_name)
        Match(e) == e.target = pkg_id /\ e.relation = "USES_PACKAGE"
        hits == SelectSeq(es, Match)
    IN IF pkg_id \notin Keys(ns) THEN <<>>
       ELSE List([i \in 1..Len(hits) |-> hits[i].source])

NotFound == [found |-> FALSE]

\* variant: only the edges that leave the id
get_component_details_outgoing(ns, es, component_id) ==
    IF component_id \notin Keys(ns) THEN NotFound
    ELSE LET Match(e) == e.source = component_id
             related_edges == SelectSeq(es, Match)
         IN [found |-> TRUE,
             node |-> NodeToDict(DictGet(ns, component_id)),
             relationships |-> List([i \in 1..Len(related_edges) |-> EdgeToDict(related_edges[i])])]

\* the node's dict and the dicts of the edges of the list that touch the id
get_component_details(ns, es, component_id) ==
    IF component_id \notin Keys(ns) THEN NotFound
    ELSE LET Match(e) == e.source = component_id \/ e.target = component_id
             related_edges == SelectSeq(es, Match)
         IN [found |-> TRUE,
             node |-> NodeToDict(DictGet(ns, component_id)),
             relationships |-> List([i \in 1..Len(related_edges) |-> EdgeToDict(related_edges[i])])]

(***************************************************************************)
(* Arguments the callers pass.                                             *)
(***************************************************************************)
\* an empty name, a name of the table, a name of no table
PackageNames == {"", "0402", "QFN"}

\* an id of each kind and the id of no row
NodeIds == {CompId(0), CompId(1), PkgId("0402"), FuncId(1), PhyId(1)}

\* a relation argument is a member of the enumeration or any other value
RelationArgs == RelationType \cup {"contains"}

GetStatistics ==
    /\ AtRest
    /\ ret' = [op |-> "get_statistics", value |-> get_statistics(nodes, edges, graph)]
    /\ err' = "none"
    /\ UNCHANGED <<df, dfCols, nodes, edges, graph, buildCount, engines>>

GetSubgraphByPackage ==
    \E package_name \in PackageNames :
        /\ AtRest
        /\ ret' = [op |-> "get_subgraph_by_package", arg |-> package_name,
                   value |-> get_subgraph_by_package(nodes, edges, package_name)]
        /\ err' = "none"
        /\ UNCHANGED <<df, dfCols, nodes, edges, graph, buildCount, engines>>

GetComponentDetails ==
    \E component_id \in NodeIds :
        /\ AtRest
        /\ ret' = [op |-> "get_component_details", arg |-> component_id,
                   value |-> get_component_details(nodes, edges, component_id)]
        /\ err' = "none"
        /\ UNCHANGED <<df, dfCols, nodes, edges, graph, buildCount, engines>>

\* EntityFactory.create_edge called directly
CreateEdge ==
    \E relation \in RelationArgs :
        /\ AtRest
        /\ ret' = [op |-> "create_edge", arg |-> relation,
                   value |-> create_edge(CompId(1), FuncId(1), relation)]
        /\ err' = "none"
        /\ UNCHANGED <<df, dfCols, nodes, edges, graph, buildCount, engines>>

Next ==
    \/ build
    \/ GetStatistics
    \/ GetSubgraphByPackage
    \/ GetComponentDetails
    \/ CreateEdge

Spec == Init /\ [][Next]_vars

(***************************************************************************)
(* Views of the state used by the properties.                              *)
(***************************************************************************)
Built == buildCount >= 1 /\ graph.built

\* the edges of the assembled graph, as (source, target, relation) triples
GraphEdges == {[source |-> graph.edges[i].source, target |-> graph.edges[i].target,
                relation |-> graph.edges[i].data.relation] : i \in 1..Len(graph.edges)}

GraphOut(c, relation) == {e \in GraphEdges : e.source = c /\ e.relation = relation}

ListOut(c, relation) == {i \in 1..Len(edges) : edges[i].source = c /\ edges[i].relation = relation}

\* the ids of the nodes of one kind, in the dictionary and in the graph
NodeIdsOfType(nt) == {nodes[i].id : i \in {j \in 1..Len(nodes) : nodes[j].node_type = nt}}

DistinctIdnums == \A i, j \in 1..Len(df) : df[i].IDNUM = df[j].IDNUM => i = j

RowEdgeCount(row) == IF row.C # "" THEN 3 ELSE 2

RECURSIVE SumRowEdges(_)
SumRowEdges(rows) ==
    IF rows = <<>> THEN 0 ELSE RowEdgeCount(Head(rows)) + SumRowEdges(Tail(rows))

\* in the assembled graph the component of every row has one hasFunction, one
\* hasPhysicalType and, for a non-empty package, one usesPackage outgoing edge
\* and no other, and the graph has as many edges as the rows ask for
ComponentEdgeShape ==
    /\ \A i \in 1..Len(df) :
          LET c == CompId(df[i].IDNUM)
          IN /\ Cardinality(GraphOut(c, "hasFunction")) = 1
             /\ Cardinality(GraphOut(c, "hasPhysicalType")) = 1
             /\ Cardinality(GraphOut(c, "usesPackage")) = IF df[i].C # "" THEN 1 ELSE 0
             /\ Cardinality({e \in GraphEdges : e.source = c}) = RowEdgeCount(df[i])
    /\ Cardinality(GraphEdges) = SumRowEdges(df)

\* every row has its Component node in the dictionary
EveryRowHasNode ==
    \A i \in 1..Len(df) : CompId(df[i].IDNUM) \in NodeIdsOfType("COMPONENT")

(***************************************************************************)
(* C1: after any build, both endpoints of every edge, in the edge list and *)
(* in the assembled graph, are ids of the node dictionary, and the graph   *)
(* has no node that the dictionary lacks.                                  *)
(***************************************************************************)
C1_EdgeEndpointsExist ==
    /\ \A i \in 1..Len(edges) :
          edges[i].source \in Keys(nodes) /\ edges[i].target \in Keys(nodes)
    /\ \A e \in GraphEdges : e.source \in Keys(nodes) /\ e.target \in Keys(nodes)
    /\ GraphNodeKeys(graph) \subseteq Keys(nodes)

C1_Witness ==
    /\ Built
    /\ Len(df) = 2
    /\ Cardinality(GraphEdges) >= 5
    /\ Len(edges) >= 5

(***************************************************************************)
(* C3: a build that follows an earlier build of the same builder leaves    *)
(* the node dictionary, the edge list, the assembled graph and the         *)
(* statistics as the earlier build left them.                              *)
(***************************************************************************)
C3_RebuildIdempotent ==
    [][(buildCount >= 1 /\ buildCount' = buildCount + 1)
        => /\ nodes' = nodes
           /\ edges' = edges
           /\ graph' = graph
           /\ get_statistics(nodes', edges', graph') = get_statistics(nodes, edges, graph)]_vars

(***************************************************************************)
(* C4 as stated: in the assembled graph every Component node has exactly   *)
(* one hasFunction, one hasPhysicalType and, when its row's package is     *)
(* non-empty, one usesPackage outgoing edge (none otherwise), whatever the *)
(* IDNUM values are, and the graph's edge count is the sum over the rows   *)
(* of 3 or 2.                                                              *)
(***************************************************************************)
C4_AnyIdnums == Built => ComponentEdgeShape

(***************************************************************************)
(* C4 amended: the same, for rows with pairwise distinct IDNUM values;     *)
(* after the first build the edge list has the same counts.                *)
(***************************************************************************)
C4_DistinctIdnums ==
    (Built /\ DistinctIdnums) =>
        /\ ComponentEdgeShape
        /\ buildCount = 1 =>
              /\ Len(edges) = SumRowEdges(df)
              /\ \A i \in 1..Len(df) :
                    LET c == CompId(df[i].IDNUM)
                    IN /\ Cardinality(ListOut(c, "HAS_FUNCTION")) = 1
                       /\ Cardinality(ListOut(c, "HAS_PHYSICAL_TYPE")) = 1
                       /\ Cardinality(ListOut(c, "USES_PACKAGE")) = IF df[i].C # "" THEN 1 ELSE 0

C4_Witness ==
    /\ Built
    /\ Len(df) = 2
    /\ DistinctIdnums
    /\ df[1].C # "" /\ df[2].C = ""
    /\ Cardinality(GraphEdges) = 5

(***************************************************************************)
(* C5 as stated: after build the number of Component nodes equals the      *)
(* number of rows and every row has its node COMP_{IDNUM}.                 *)
(***************************************************************************)
C5_OneNodePerRow ==
    buildCount >= 1 =>
        /\ Cardinality(NodeIdsOfType("COMPONENT")) = Len(df)
        /\ EveryRowHasNode

(***************************************************************************)
(* C5 amended: the number of Component nodes equals the number of distinct *)
(* IDNUM values of the rows (the number of rows when they are pairwise     *)
(* distinct) and every row has its node COMP_{IDNUM}.                      *)
(***************************************************************************)
C5_OneNodePerIdnum ==
    buildCount >= 1 =>
        /\ Cardinality(NodeIdsOfType("COMPONENT")) = Cardinality({df[i].IDNUM : i \in 1..Len(df)})
        /\ Len(get_nodes_by_type(nodes, "COMPONENT")) = Cardinality({df[i].IDNUM : i \in 1..Len(df)})
        /\ DistinctIdnums => Len(get_nodes_by_type(nodes, "COMPONENT")) = Len(df)
        /\ EveryRowHasNode

C5_Witness ==
    /\ buildCount >= 1
    /\ Len(df) = 2
    /\ DistinctIdnums
    /\ Len(get_nodes_by_type(nodes, "COMPONENT")) = 2

(***************************************************************************)
(* C6: after build the Package nodes are exactly PKG_{v} for the distinct  *)
(* non-empty package values v, the FunctionClass nodes FUNC_{c} for the    *)
(* distinct function codes and the PhysicalClass nodes PHY_{c} for the     *)
(* distinct physical codes, one node each.                                 *)
(***************************************************************************)
C6_CategoryNodes ==
    buildCount >= 1 =>
        LET pkgs == {df[i].C : i \in 1..Len(df)} \ {""}
            funcs == {df[i].FunctionClass : i \in 1..Len(df)}
            phys == {df[i].PhysicalClass : i \in 1..Len(df)}
        IN /\ Len(get_nodes_by_type(nodes, "PACKAGE")) = Cardinality(pkgs)
           /\ Len(get_nodes_by_type(nodes, "FUNCTION_CLASS")) = Cardinality(funcs)
           /\ Len(get_nodes_by_type(nodes, "PHYSICAL_CLASS")) = Cardinality(phys)
           /\ NodeIdsOfType("PACKAGE") = {PkgId(v) : v \in pkgs}
           /\ NodeIdsOfType("FUNCTION_CLASS") = {FuncId(c) : c \in funcs}
           /\ NodeIdsOfType("PHYSICAL_CLASS") = {PhyId(c) : c \in phys}
           /\ PkgId("") \notin Keys(nodes)

C6_Witness ==
    /\ buildCount = 2
    /\ Len(df) = 2
    /\ df[1].C = "" /\ df[2].C # ""
    /\ df[1].FunctionClass # df[2].FunctionClass
    /\ df[1].PhysicalClass = df[2].PhysicalClass
    /\ Len(get_nodes_by_type(nodes, "PACKAGE")) = 1
    /\ Len(get_nodes_by_type(nodes, "FUNCTION_CLASS")) = 2

(***************************************************************************)
(* C7: after build get_subgraph_by_package(p) returns each component that  *)
(* has a usesPackage edge to PKG_p in the assembled graph exactly once and *)
(* nothing else, and nothing when PKG_p is not a node.                     *)
(***************************************************************************)
C7_SubgraphExact ==
    (Built /\ ret.op = "get_subgraph_by_package") =>
        LET users == {e.source : e \in {x \in GraphEdges :
                        x.target = PkgId(ret.arg) /\ x.relation = "usesPackage"}}
        IN /\ Range(ret.value) = users
           /\ Len(ret.value) = Cardinality(users)
           /\ PkgId(ret.arg) \notin Keys(nodes) => ret.value = <<>>

(***************************************************************************)
(* C8: get_component_details(id) returns "not found" when id is not a key  *)
(* of the node dictionary, and otherwise the node's attributes with        *)
(* exactly the edges of the assembled graph that have id as source or as   *)
(* target.                                                                 *)
(***************************************************************************)
C8_ComponentDetails ==
    ret.op = "get_component_details" =>
        IF ret.arg \notin Keys(nodes)
        THEN ret.value = NotFound
        ELSE /\ ret.value.found
             /\ ret.value.node = DictGet(graph.nodes, ret.arg).data
             /\ ret.value.node.id = ret.arg
             /\ {[source |-> r.source, target |-> r.target, relation |-> r.relation] :
                    r \in Range(ret.value.relationships)}
                = {e \in GraphEdges : e.source = ret.arg \/ e.target = ret.arg}

C8_Witness ==
    /\ Built
    /\ Len(df) = 2
    /\ DistinctIdnums
    /\ ret.op = "get_component_details"
    /\ ret.arg = FuncId(1)
    /\ ret.value.found
    /\ Len(ret.value.relationships) = 2

(***************************************************************************)
(* C9: after any builds get_statistics() reports the assembled graph:      *)
(* total_nodes is its number of nodes, total_edges its number of edges,    *)
(* and the per-kind and per-relation counts add up to those totals.        *)
(***************************************************************************)
C9_StatisticsOfGraph ==
    (Built /\ ret.op = "get_statistics") =>
        LET st == ret.value
        IN /\ st.total_nodes = Len(graph.nodes)
           /\ st.total_edges = Len(graph.edges)
           /\ st.node_types["Component"] + st.node_types["Package"]
                + st.node_types["FunctionClass"] + st.node_types["PhysicalClass"]
              = Len(graph.nodes)
           /\ st.relation_types["usesPackage"] + st.relation_types["hasFunction"]
                + st.relation_types["hasPhysicalType"]
              = Len(graph.edges)

(***************************************************************************)
(* C10: create_edge given a relation that is not a member of RelationType  *)
(* fails with ValidationError and returns no edge.                         *)
(***************************************************************************)
C10_CreateEdgeValidates ==
    (ret.op = "create_edge" /\ ret.arg \notin RelationType) =>
        /\ err = "ValidationError"
        /\ "value" \notin DOMAIN ret

(***************************************************************************)
(* Views of the nodes used by the properties of names, sizes and           *)
(* attributes.                                                             *)
(***************************************************************************)
\* the attributes of a node of the assembled graph
GraphNodeData(key) == DictGet(graph.nodes, key).data

\* the last row of the table with the IDNUM of row i
LastRowOf(i) == CHOOSE j \in i..Len(df) :
                   /\ df[j].IDNUM = df[i].IDNUM
                   /\ \A k \in (j + 1)..Len(df) : df[k].IDNUM # df[i].IDNUM

\* the value of 'type' that the prefix of an id stands for
TypeOfId(key) ==
    IF \E n \in Idnums : key = CompId(n) THEN "Component"
    ELSE IF \E p \in PackageValues : key = PkgId(p) THEN "Package"
    ELSE IF \E c \in FunctionCodes : key = FuncId(c) THEN "FunctionClass"
    ELSE IF \E c \in PhysicalCodes : key = PhyId(c) THEN "PhysicalClass"
    ELSE "none"

\* Package, FunctionClass and PhysicalClass nodes have the sizes 30, 40, 40,
\* in the dictionary and in the assembled graph
CategorySizes ==
    /\ \A i \in 1..Len(nodes) :
          /\ nodes[i].node_type = "PACKAGE" => nodes[i].properties.size = 30
          /\ nodes[i].node_type \in {"FUNCTION_CLASS", "PHYSICAL_CLASS"} =>
                nodes[i].properties.size = 40
    /\ \A i \in 1..Len(graph.nodes) :
          LET d == graph.nodes[i].data
          IN /\ d.type = "Package" => d.size = 30
             /\ d.type \in {"FunctionClass", "PhysicalClass"} => d.size = 40

\* the Component node of row i has the size 20 + 5 * ChipL of row j
SizeFromRow(i, j) ==
    LET c == CompId(df[i].IDNUM)
    IN /\ c \in Keys(nodes)
       /\ DictGet(nodes, c).properties.size = 20 + 5 * df[j].ChipL
       /\ graph.built => GraphNodeData(c).size = 20 + 5 * df[j].ChipL

(***************************************************************************)
(* C17: a build from a table with its columns never fails, whatever the    *)
(* class codes; the node FUNC_{code} (PHY_{code}) of every row exists, in  *)
(* the dictionary and in the graph, and its name is the name the table of  *)
(* config.py gives the code, or Class_{code} (Physical_{code}) when the    *)
(* table has no entry for it.                                              *)
(***************************************************************************)
C17_UnmappedCodes ==
    (buildCount >= 1 /\ dfCols) =>
        /\ err = "none"
        /\ graph.built
        /\ \A i \in 1..Len(df) :
              LET fc == df[i].FunctionClass
                  pc == df[i].PhysicalClass
                  fname == IF fc \in DOMAIN FUNCTION_CLASS_MAP
                           THEN FUNCTION_CLASS_MAP[fc] ELSE "Class_" \o ToString(fc)
                  pname == IF pc \in DOMAIN PHYSICAL_CLASS_MAP
                           THEN PHYSICAL_CLASS_MAP[pc] ELSE "Physical_" \o ToString(pc)
              IN /\ FuncId(fc) \in Keys(nodes) /\ PhyId(pc) \in Keys(nodes)
                 /\ DictGet(nodes, FuncId(fc)).name = fname
                 /\ DictGet(nodes, PhyId(pc)).name = pname
                 /\ GraphNodeData(FuncId(fc)).name = fname
                 /\ GraphNodeData(PhyId(pc)).name = pname

C17_Witness ==
    /\ Built
    /\ \E i, j \in 1..Len(df) :
          /\ df[i].FunctionClass \notin DOMAIN FUNCTION_CLASS_MAP
          /\ df[i].PhysicalClass \notin DOMAIN PHYSICAL_CLASS_MAP
          /\ df[j].FunctionClass \in DOMAIN FUNCTION_CLASS_MAP
          /\ df[j].PhysicalClass \in DOMAIN PHYSICAL_CLASS_MAP
          /\ GraphNodeData(FuncId(df[i].FunctionClass)).name = "Class_3"
          /\ GraphNodeData(PhyId(df[i].PhysicalClass)).name = "Physical_4"

C19_AttributeShape ==
    Built =>
        /\ \A i \in 1..Len(graph.nodes) :
              LET d == graph.nodes[i].data
              IN /\ {"id", "name", "type", "label"} \subseteq DOMAIN d
                 /\ d.id = graph.nodes[i].id
                 /\ d.type \in {NodeTypeValue(nt) : nt \in NodeType}
                 /\ d.type = TypeOfId(graph.nodes[i].id)
        /\ \A i \in 1..Len(graph.edges) :
              LET d == graph.edges[i].data
              IN /\ DOMAIN d = {"relation", "weight"}
                 /\ d.relation \in {RelationTypeValue(rt) : rt \in RelationType}

C19_Witness ==
    /\ Built
    /\ {graph.nodes[i].data.type : i \in 1..Len(graph.nodes)} =
          {NodeTypeValue(nt) : nt \in NodeType}
    /\ {graph.edges[i].data.relation : i \in 1..Len(graph.edges)} =
          {RelationTypeValue(rt) : rt \in RelationType}
    /\ \E i \in 1..Len(graph.nodes) :
          graph.nodes[i].data.name = "CAP_CERAMIC_100NF_X7R" /\
          graph.nodes[i].data.label = "CAP_CERAMIC_100"

(***************************************************************************)
(* networkx.DiGraph as the layout engines read it.  Iteration over the     *)
(* nodes, over the successors and over the predecessors of a node follows  *)
(* the order of insertion.                                                 *)
(***************************************************************************)
\* graph.nodes[key].get(attr)
NodeGet(g, key, attr) ==
    LET d == DictGet(g.nodes, key).data
    IN IF attr \in DOMAIN d THEN d[attr] ELSE "None"

NodeList(g) == List([i \in 1..Len(g.nodes) |-> g.nodes[i].id])

\* variant: the nodes at either end of an edge of the node
neighbors_undirected(g, key) ==
    LET At(e) == e.source = key \/ e.target = key
        out == SelectSeq(g.edges, At)
    IN List([i \in 1..Len(out) |-> IF out[i].source = key THEN out[i].target ELSE out[i].source])

\* graph.neighbors(key), graph.successors(key)
neighbors(g, key) ==
    LET From(e) == e.source = key
        out == SelectSeq(g.edges, From)
    IN List([i \in 1..Len(out) |-> out[i].target])

predecessors(g, key) ==
    LET To(e) == e.target = key
        into == SelectSeq(g.edges, To)
    IN List([i \in 1..Len(into) |-> into[i].source])

\* graph.in_degree(key) + graph.out_degree(key), graph.degree(key)
degree(g, key) == Len(predecessors(g, key)) + Len(neighbors(g, key))

\* the nodes whose 'type' is the value of the member, in the order of the graph
NodesOfType(g, nt) ==
    LET Is(key) == NodeGet(g, key, "type") = NodeTypeValue(nt)
    IN SelectSeq(NodeList(g), Is)

(***************************************************************************)
(* Python's order of strings on the ids of the model, and sorted() of a    *)
(* list without repeats.                                                   *)
(***************************************************************************)
SortedIds == <<"COMP_1", "COMP_2", "COMP_3", "FUNC_1", "FUNC_3",
               "PHY_1", "PHY_4", "PKG_0402", "PKG_0603">>

Rank(key) == CHOOSE i \in 1..Len(SortedIds) : SortedIds[i] = key

sorted(s) ==
    LET Place(i) == Cardinality({j \in 1..Len(s) : Rank(s[j]) < Rank(s[i])}) + 1
    IN List([k \in 1..Len(s) |-> s[CHOOSE i \in 1..Len(s) : Place(i) = k]])

\* the index of an element of a list without repeats
IndexOf(s, x) == CHOOSE i \in 1..Len(s) : s[i] = x

\* dict.update
Update(p, q) == [k \in DOMAIN p \cup DOMAIN q |-> IF k \in DOMAIN q THEN q[k] ELSE p[k]]

(***************************************************************************)
(* HierarchicalLayout.  Coordinates are kept in twentieths of a unit:      *)
(* y = (i - n / 2 + 0.5) * spacing is (2 i - n + 1) * (10 * spacing)       *)
(* twentieths.  Spacing arguments are passed multiplied by ten.            *)
(***************************************************************************)
\* NodeType(data.get('type')) raises ValueError on a value of no member
group_nodes_by_type_fails(g) ==
    \E i \in 1..Len(g.nodes) :
        NodeGet(g, g.nodes[i].id, "type") \notin {NodeTypeValue(nt) : nt \in NodeType}

group_nodes_by_type(g) == [nt \in NodeType |-> NodesOfType(g, nt)]

\* variant: the lane starts at 0 instead of being centred on it
place_layer_from_zero(positions, nodes_, x, spacing10) ==
    LET nodes_sorted == sorted(nodes_)
    IN Update(positions,
              [node \in Range(nodes_sorted) |->
                  [x |-> 20 * x,
                   y |-> 2 * (IndexOf(nodes_sorted, node) - 1) * spacing10]])

\* the positions after _place_layer(nodes, x, spacing)
place_layer(positions, nodes_, x, spacing10) ==
    LET nodes_sorted == sorted(nodes_)
        n == Len(nodes_sorted)
    IN Update(positions,
              [node \in Range(nodes_sorted) |->
                  [x |-> 20 * x,
                   y |-> (2 * (IndexOf(nodes_sorted, node) - 1) - n + 1) * spacing10]])

\* sorted(nodes, key=counts, reverse=True): larger counts first, equal counts
\* in the order of the list
sort_by_connection_count(g, nodes_) ==
    LET n == Len(nodes_)
        Place(i) == Cardinality({j \in 1..n :
                        \/ degree(g, nodes_[j]) > degree(g, nodes_[i])
                        \/ degree(g, nodes_[j]) = degree(g, nodes_[i]) /\ j < i}) + 1
    IN List([k \in 1..n |-> nodes_[CHOOSE i \in 1..n : Place(i) = k]])

\* variant: the first neighbour of the component, of whatever type
FirstPackage_any(g, comp) ==
    IF neighbors(g, comp) = <<>> THEN "None" ELSE neighbors(g, comp)[1]

\* the first neighbour of the component whose type is Package, or "None"
FirstPackage(g, comp) ==
    LET IsPackage(key) == NodeGet(g, key, "type") = NodeTypeValue("PACKAGE")
        pkgs == SelectSeq(neighbors(g, comp), IsPackage)
    IN IF pkgs = <<>> THEN "None" ELSE pkgs[1]

\* the dictionary package -> components as the first loop over the list
\* leaves it: packages in the order they are first met, components in the
\* order of the list
PackageGroups(g, components) ==
    LET HasPackage(comp) == FirstPackage(g, comp) # "None"
        owned == SelectSeq(components, HasPackage)
        pkgs == Unique(List([i \in 1..Len(owned) |-> FirstPackage(g, owned[i])]))
    IN List([k \in 1..Len(pkgs) |->
            LET Of(comp) == FirstPackage(g, comp) = pkgs[k]
            IN [id |-> pkgs[k], comps |-> SelectSeq(owned, Of)]])

\* comps[:n]
Prefix(s, n) == SubSeq(s, 1, IF Len(s) < n THEN Len(s) ELSE n)

\* variant: three components of a package
select_representative_components_three(g, all_components, max_components) ==
    LET pkg_components == PackageGroups(g, all_components)
        After(k) == UNION {Range(Prefix(pkg_components[j].comps, 3)) : j \in 1..k}
        Reached(k) == k = 1 \/ Cardinality(After(k - 1)) < max_components
        selected == UNION {Range(Prefix(pkg_components[k].comps, 3)) :
                              k \in {j \in 1..Len(pkg_components) : Reached(j)}}
        listed == SelectSeq(SortedIds, LAMBDA key : key \in selected)
    IN Prefix(listed, max_components)

\* the first two components of each package, package after package until
\* the selection has max_components members; sorted and cut to max_components
select_representative_components(g, all_components, max_components) ==
    LET pkg_components == PackageGroups(g, all_components)
        After(k) == UNION {Range(Prefix(pkg_components[j].comps, 2)) : j \in 1..k}
        Reached(k) == k = 1 \/ Cardinality(After(k - 1)) < max_components
        selected == UNION {Range(Prefix(pkg_components[k].comps, 2)) :
                              k \in {j \in 1..Len(pkg_components) : Reached(j)}}
        listed == SelectSeq(SortedIds, LAMBDA key : key \in selected)
    IN Prefix(listed, max_components)

\* variant: every component at the y of its package
place_components_by_package_flat(g, positions, components, x) ==
    LET Placed(comp) == FirstPackage(g, comp) # "None" /\ FirstPackage(g, comp) \in DOMAIN positions
        placed == SelectSeq(components, Placed)
    IN Update(positions,
              [comp \in Range(placed) |->
                  [x |-> 20 * x, y |-> positions[FirstPackage(g, comp)].y]])

\* the positions after _place_components_by_package(components, x)
place_components_by_package(g, positions, components, x) ==
    LET Placed(comp) == FirstPackage(g, comp) # "None" /\ FirstPackage(g, comp) \in DOMAIN positions
        placed == SelectSeq(components, Placed)
        Group(comp) == LET Same(c) == FirstPackage(g, c) = FirstPackage(g, comp)
                       IN SelectSeq(placed, Same)
    IN Update(positions,
              [comp \in Range(placed) |->
                  [x |-> 20 * x,
                   y |-> positions[FirstPackage(g, comp)].y
                         + (2 * (IndexOf(Group(comp), comp) - 1) - Len(Group(comp)) + 1) * 6]])

\* max_components of _select_representative_components
DefaultMaxComponents == 80

\* calculate_layout up to the three lanes of category and package nodes
HierarchicalLanes(g, positions, nodes_by_type) ==
    LET p1 == place_layer(positions, nodes_by_type["PHYSICAL_CLASS"], -8, 40)
        p2 == place_layer(p1, nodes_by_type["FUNCTION_CLASS"], -4, 25)
        pkg_nodes_sorted == sort_by_connection_count(g, nodes_by_type["PACKAGE"])
    IN place_layer(p2, pkg_nodes_sorted, 0, 18)

\* calculate_layout from the selection of the components on
HierarchicalComponents(g, positions, nodes_by_type) ==
    LET comp_nodes == select_representative_components(g, nodes_by_type["COMPONENT"],
                                                      DefaultMaxComponents)
    IN place_components_by_package(g, positions, comp_nodes, 5)

\* the map a HierarchicalLayout whose dictionary holds positions returns
HierarchicalLayout(g, positions) ==
    LET nodes_by_type == group_nodes_by_type(g)
    IN HierarchicalComponents(g, HierarchicalLanes(g, positions, nodes_by_type), nodes_by_type)

(***************************************************************************)
(* SpringLayout.  nx.spring_layout with seed=42 gives every node of the    *)
(* graph a base position that the graph determines; the position kept is   *)
(* the base position scaled and shifted by the node's type.  A position is *)
(* recorded as the node whose base position it is made from, the factors   *)
(* (times ten) and the shift of x.                                         *)
(***************************************************************************)
spring_layout(g) == Range(NodeList(g))

SpringTransform(g, node_id) ==
    LET node_type == NodeGet(g, node_id, "type")
    IN CASE node_type = NodeTypeValue("PHYSICAL_CLASS") ->
                [base |-> node_id, xscale10 |-> 5, xshift |-> -4, yscale10 |-> 30]
         [] node_type = NodeTypeValue("FUNCTION_CLASS") ->
                [base |-> node_id, xscale10 |-> 5, xshift |-> 4, yscale10 |-> 20]
         [] node_type = NodeTypeValue("PACKAGE") ->
                [base |-> node_id, xscale10 |-> 20, xshift |-> 0, yscale10 |-> 15]
         [] OTHER ->
                [base |-> node_id, xscale10 |-> 30, xshift |-> 0, yscale10 |-> 12]

\* the map a SpringLayout whose dictionary holds positions returns
SpringLayout(g, positions) ==
    Update(positions, [node_id \in spring_layout(g) |-> SpringTransform(g, node_id)])

(***************************************************************************)
(* RadialLayout.  A position on a ring is recorded as the radius and the   *)
(* angle num / den in turns: start_angle + 2 pi i / n is                   *)
(* (start8 n + 8 i) / (8 n) turns for a start of start8 eighths of a turn. *)
(***************************************************************************)
\* variant: the node of largest degree of any type
center_node_any(g) ==
    LET pkgs == NodeList(g)
        Largest(i) == \A j \in 1..Len(pkgs) : degree(g, pkgs[j]) <= degree(g, pkgs[i])
    IN IF pkgs = <<>> THEN "None"
       ELSE pkgs[CHOOSE i \in 1..Len(pkgs) :
                    Largest(i) /\ \A j \in 1..(i - 1) : ~Largest(j)]

\* max(packages, key=degree, default=None): the first package of largest degree
center_node(g) ==
    LET pkgs == NodesOfType(g, "PACKAGE")
        Largest(i) == \A j \in 1..Len(pkgs) : degree(g, pkgs[j]) <= degree(g, pkgs[i])
    IN IF pkgs = <<>> THEN "None"
       ELSE pkgs[CHOOSE i \in 1..Len(pkgs) :
                    Largest(i) /\ \A j \in 1..(i - 1) : ~Largest(j)]

\* variant: the angle between two nodes is computed before the loop
place_in_circle_eager(pos, nodes_, radius, start8) ==
    LET n == Len(nodes_)
    IN IF n = 0 THEN [err |-> "ZeroDivisionError", pos |-> pos]
       ELSE [err |-> "none",
             pos |-> Update(pos,
                [node \in Range(nodes_) |->
                    [radius |-> radius,
                     num |-> start8 * n + 8 * (IndexOf(nodes_, node) - 1),
                     den |-> 8 * n]])]

\* the division by n is made once for every node of the list, so never for
\* an empty list
place_in_circle(pos, nodes_, radius, start8) ==
    LET n == Len(nodes_)
    IN IF \E node \in Range(nodes_) : n = 0 THEN [err |-> "ZeroDivisionError", pos |-> pos]
       ELSE [err |-> "none",
             pos |-> Update(pos,
                [node \in Range(nodes_) |->
                    [radius |-> radius,
                     num |-> start8 * n + 8 * (IndexOf(nodes_, node) - 1),
                     den |-> 8 * n]])]

\* Python truth value of center_node
CenterTruthy(center) == center # "None" /\ center # ""

\* variant: the two rings at the radius of the inner one
RadialRings_one_radius(g, center) ==
    IF ~CenterTruthy(center) THEN [err |-> "none", pos |-> EmptyAttrs]
    ELSE LET pos0 == [k \in {center} |-> [radius |-> 0, num |-> 0, den |-> 1]]
             inner == place_in_circle(pos0, predecessors(g, center), 3, 0)
             outer == place_in_circle(inner.pos, neighbors(g, center), 3, 1)
         IN IF inner.err # "none" THEN inner ELSE outer

\* calculate_layout from "if center_node" on: the error raised, if any, and pos
RadialRings(g, center) ==
    IF ~CenterTruthy(center) THEN [err |-> "none", pos |-> EmptyAttrs]
    ELSE LET pos0 == [k \in {center} |-> [radius |-> 0, num |-> 0, den |-> 1]]
             inner == place_in_circle(pos0, predecessors(g, center), 3, 0)
             outer == place_in_circle(inner.pos, neighbors(g, center), 6, 1)
         IN IF inner.err # "none" THEN inner ELSE outer

\* the result of RadialLayout.calculate_layout
RadialLayout(g) == RadialRings(g, center_node(g))

(***************************************************************************)
(* The graphs given to the engines: the graph a builder assembles from a   *)
(* table of parts, for every arrangement of some or all of four rows       *)
(* (parts that share a package, a part listed twice with two packages) and *)
(* for the tables with a part without package; and three graphs assembled  *)
(* by hand: a Package node with no neighbours, a Package node with a       *)
(* category but no component, and a Package node with a component and a    *)
(* category.                                                               *)
(***************************************************************************)
Part(idnum, package, fc, pc) ==
    [IDNUM |-> idnum, NAME |-> PartName(fc, pc), C |-> package,
     FunctionClass |-> fc, PhysicalClass |-> pc, ChipL |-> PartChipL(fc, pc)]

LayoutRows == {Part(1, "0402", 1, 1), Part(1, "0603", 1, 1), Part(2, "0603", 1, 1),
               Part(3, "0603", 1, 1)}

UnpackagedRows == {Part(2, "", 3, 4), Part(1, "0402", 1, 1)}

\* the lists of distinct elements of S
RECURSIVE Arrangements(_)
Arrangements(S) ==
    {<<>>} \cup UNION {{<<x>> \o t : t \in Arrangements(S \ {x})} : x \in S}

LayoutTables ==
    Arrangements(LayoutRows) \cup
    {t \in Arrangements(UnpackagedRows) : Part(2, "", 3, 4) \in Range(t)}

\* the fields of a new builder after build() on the table
NodesOf(rows) ==
    create_physical_class_nodes(
        create_function_class_nodes(
            create_package_nodes(create_component_nodes(<<>>, rows), rows), rows), rows)

EdgesOf(rows) == create_relationships(<<>>, rows)

GraphOf(rows) == build_networkx_graph(NodesOf(rows), EdgesOf(rows))

HandGraphs ==
    {build_networkx_graph(<<create_package_node("0402")>>, <<>>),
     build_networkx_graph(<<create_package_node("0402"),
                            create_function_class_node(1, FunctionClassName(1))>>,
                          <<create_edge(PkgId("0402"), FuncId(1), "HAS_FUNCTION")>>),
     build_networkx_graph(<<create_component_node(1, PartName(1, 1), PartChipL(1, 1)),
                            create_package_node("0402"),
                            create_function_class_node(1, FunctionClassName(1))>>,
                          <<create_edge(CompId(1), PkgId("0402"), "USES_PACKAGE"),
                            create_edge(PkgId("0402"), FuncId(1), "HAS_FUNCTION")>>)}

LayoutInit ==
    /\ \/ /\ df \in LayoutTables
          /\ nodes = NodesOf(df)
          /\ edges = EdgesOf(df)
          /\ graph = GraphOf(df)
          /\ buildCount = 1
          /\ ret = [op |-> "build"]
       \/ /\ df = <<>>
          /\ nodes = <<>>
          /\ edges = <<>>
          /\ graph \in HandGraphs
          /\ buildCount = 0
          /\ ret = NoReturn
    /\ dfCols = TRUE
    /\ err = "none"
    /\ engines = NewEngines

(***************************************************************************)
(* The calls of the engines, step by step.  The steps of different engines *)
(* may interleave; an engine is called again only after its call has       *)
(* ended.  No step assigns to the graph or to the builder.                 *)
(***************************************************************************)
builderVars == <<df, dfCols, nodes, edges, graph, buildCount, ret, err>>

NotInCall(s) == engines[s].pc \in {"idle", "returned", "failed"}

\* variant: one dictionary for the engines of all strategies
SelfPositions_shared(e, s) == e["SpringLayout"].positions

\* self.positions of the engine of strategy s
SelfPositions(e, s) == e[s].positions

\* the arguments of direct calls of _select_representative_components
CapArgs == {1, 2, 3}

\* HierarchicalLayout.calculate_layout: nodes_by_type = self._group_nodes_by_type()
HierarchicalGroup ==
    LET s == "HierarchicalLayout"
    IN /\ NotInCall(s)
       /\ engines' = [engines EXCEPT ![s] =
             IF group_nodes_by_type_fails(graph)
             THEN [@ EXCEPT !.pc = "failed", !.ret = NoReturn, !.err = "ValueError"]
             ELSE [@ EXCEPT !.pc = "grouped", !.local = group_nodes_by_type(graph),
                            !.ret = NoReturn, !.err = "none"]]
       /\ UNCHANGED builderVars

\* the three calls of _place_layer
HierarchicalPlaceLanes ==
    LET s == "HierarchicalLayout"
    IN /\ engines[s].pc = "grouped"
       /\ engines' = [engines EXCEPT ![s] =
             [@ EXCEPT !.pc = "lanes",
                       !.positions = HierarchicalLanes(graph, SelfPositions(engines, s),
                                                       engines[s].local)]]
       /\ UNCHANGED builderVars

\* variant: the positions are also written to the nodes of the graph
HierarchicalPlaceComponents_stored ==
    LET s == "HierarchicalLayout"
        p == HierarchicalComponents(graph, SelfPositions(engines, s), engines[s].local)
    IN /\ engines[s].pc = "lanes"
       /\ engines' = [engines EXCEPT ![s] =
             [@ EXCEPT !.pc = "returned", !.positions = p, !.local = EmptyAttrs,
                       !.ret = [op |-> "calculate_layout", value |-> p]]]
       /\ graph' = [graph EXCEPT !.nodes =
             List([i \in 1..Len(graph.nodes) |->
                 IF graph.nodes[i].id \in DOMAIN p
                 THEN [graph.nodes[i] EXCEPT !.data =
                          Update(@, [k \in {"pos"} |-> p[graph.nodes[i].id]])]
                 ELSE graph.nodes[i]])]
       /\ UNCHANGED <<df, dfCols, nodes, edges, buildCount, ret, err>>

\* the selection and placement of the components, and the return
HierarchicalPlaceComponents ==
    LET s == "HierarchicalLayout"
        p == HierarchicalComponents(graph, SelfPositions(engines, s), engines[s].local)
    IN /\ engines[s].pc = "lanes"
       /\ engines' = [engines EXCEPT ![s] =
             [@ EXCEPT !.pc = "returned", !.positions = p, !.local = EmptyAttrs,
                       !.ret = [op |-> "calculate_layout", value |-> p]]]
       /\ UNCHANGED builderVars

\* _select_representative_components called with the Component nodes of the
\* graph and a cap of the caller's
SelectRepresentativeComponents ==
    \E max_components \in CapArgs :
        LET s == "HierarchicalLayout"
        IN /\ NotInCall(s)
           /\ engines' = [engines EXCEPT ![s].ret =
                 [op |-> "select", max_components |-> max_components,
                  value |-> select_representative_components(
                                graph, NodesOfType(graph, "COMPONENT"), max_components)]]
           /\ UNCHANGED builderVars

\* SpringLayout.calculate_layout: pos = nx.spring_layout(...)
SpringBase ==
    LET s == "SpringLayout"
    IN /\ NotInCall(s)
       /\ engines' = [engines EXCEPT ![s] =
             [@ EXCEPT !.pc = "based", !.local = [pos |-> spring_layout(graph)],
                       !.ret = NoReturn, !.err = "none"]]
       /\ UNCHANGED builderVars

\* the loop over pos, and the return
SpringPlace ==
    LET s == "SpringLayout"
        p == Update(SelfPositions(engines, s),
                    [node_id \in engines[s].local.pos |-> SpringTransform(graph, node_id)])
    IN /\ engines[s].pc = "based"
       /\ engines' = [engines EXCEPT ![s] =
             [@ EXCEPT !.pc = "returned", !.positions = p, !.local = EmptyAttrs,
                       !.ret = [op |-> "calculate_layout", value |-> p]]]
       /\ UNCHANGED builderVars

\* RadialLayout.calculate_layout: center_node = max(...)
RadialCenter ==
    LET s == "RadialLayout"
    IN /\ NotInCall(s)
       /\ engines' = [engines EXCEPT ![s] =
             [@ EXCEPT !.pc = "centered", !.local = [center_node |-> center_node(graph)],
                       !.ret = NoReturn, !.err = "none"]]
       /\ UNCHANGED builderVars

\* the two rings, self.positions = pos, and the return
RadialPlace ==
    LET s == "RadialLayout"
        r == RadialRings(graph, engines[s].local.center_node)
    IN /\ engines[s].pc = "centered"
       /\ engines' = [engines EXCEPT ![s] =
             IF r.err # "none"
             THEN [@ EXCEPT !.pc = "failed", !.local = EmptyAttrs, !.err = r.err]
             ELSE [@ EXCEPT !.pc = "returned", !.positions = r.pos, !.local = EmptyAttrs,
                            !.ret = [op |-> "calculate_layout", value |-> r.pos]]]
       /\ UNCHANGED builderVars

LayoutNext ==
    \/ HierarchicalGroup
    \/ HierarchicalPlaceLanes
    \/ HierarchicalPlaceComponents
    \/ SelectRepresentativeComponents
    \/ SpringBase
    \/ SpringPlace
    \/ RadialCenter
    \/ RadialPlace

SpecLayout == LayoutInit /\ [][LayoutNext]_vars

(***************************************************************************)
(* Views of the engines used by the properties.                            *)
(***************************************************************************)
\* the engine's last call of calculate_layout has returned; its dictionary
\* of positions is the map it returned
Returned(s) == engines[s].pc = "returned"

PositionsOf(s) == engines[s].positions

\* the Component nodes with a position in the map
PositionedComponents(p) ==
    {key \in DOMAIN p : NodeGet(graph, key, "type") = NodeTypeValue("COMPONENT")}

PackagesOf(g) == Range(NodesOfType(g, "PACKAGE"))

\* the component has a usesPackage edge to the package
UsesPackage(comp, pkg) ==
    \E e \in GraphEdges : e.source = comp /\ e.target = pkg /\ e.relation = "usesPackage"

\* the tables that differ from the table in the places of two rows
RowSwaps(rows) ==
    {[k \in 1..Len(rows) |-> IF k = i THEN rows[j] ELSE IF k = j THEN rows[i] ELSE rows[k]] :
        i \in 1..Len(rows), j \in 1..Len(rows)}

\* the graph has no node, no Package node, no Component node, or a Package
\* node without neighbours
EdgeCaseGraph(g) ==
    \/ Len(g.nodes) = 0
    \/ NodesOfType(g, "PACKAGE") = <<>>
    \/ NodesOfType(g, "COMPONENT") = <<>>
    \/ \E pkg \in PackagesOf(g) : degree(g, pkg) = 0

(***************************************************************************)
(* C11 as stated: the map HierarchicalLayout.calculate_layout returns has  *)
(* at most max_components (80) Component nodes, a selection made with cap  *)
(* M has at most M, and no Package node is the target of the usesPackage   *)
(* edges of more than 2 of the positioned (selected) Component nodes.      *)
(***************************************************************************)
C11_TwoPerPackageTarget ==
    LET h == engines["HierarchicalLayout"]
    IN /\ Returned("HierarchicalLayout") =>
            /\ Cardinality(PositionedComponents(h.positions)) <= DefaultMaxComponents
            /\ \A pkg \in PackagesOf(graph) :
                  Cardinality({c \in PositionedComponents(h.positions) : UsesPackage(c, pkg)}) <= 2
       /\ h.ret.op = "select" =>
            /\ Len(h.ret.value) <= h.ret.max_components
            /\ \A pkg \in PackagesOf(graph) :
                  Cardinality({c \in Range(h.ret.value) : UsesPackage(c, pkg)}) <= 2

(***************************************************************************)
(* C11 amended: the map HierarchicalLayout.calculate_layout returns has at *)
(* most max_components (80) Component nodes, a selection made with cap M   *)
(* has at most M, and no Package node is the first Package neighbour of    *)
(* more than 2 of the positioned (selected) Component nodes.               *)
(***************************************************************************)
C11_TwoPerFirstPackage ==
    LET h == engines["HierarchicalLayout"]
    IN /\ Returned("HierarchicalLayout") =>
            /\ Cardinality(PositionedComponents(h.positions)) <= DefaultMaxComponents
            /\ \A pkg \in PackagesOf(graph) :
                  Cardinality({c \in PositionedComponents(h.positions) :
                                  FirstPackage(graph, c) = pkg}) <= 2
       /\ h.ret.op = "select" =>
            /\ Len(h.ret.value) <= h.ret.max_components
            /\ \A pkg \in PackagesOf(graph) :
                  Cardinality({c \in Range(h.ret.value) : FirstPackage(graph, c) = pkg}) <= 2

C11_Witness ==
    LET h == engines["HierarchicalLayout"]
    IN /\ Returned("HierarchicalLayout")
       /\ \E pkg \in PackagesOf(graph) :
             /\ Cardinality({c \in Range(NodesOfType(graph, "COMPONENT")) :
                                FirstPackage(graph, c) = pkg}) = 3
             /\ Cardinality({c \in PositionedComponents(h.positions) :
                                FirstPackage(graph, c) = pkg}) = 2
       /\ h.ret.op = "select"
       /\ h.ret.max_components = 1
       /\ Len(h.ret.value) = 1
       /\ Cardinality(PositionedComponents(h.positions)) = 2

(***************************************************************************)
(* C12: no step of calculate_layout of any of the three strategies changes *)
(* the graph: its nodes, its edges and their attributes stay what they     *)
(* were, so no coordinate is stored on it.                                 *)
(***************************************************************************)
C12_GraphUnchanged == [][engines' # engines => graph' = graph]_vars

C12_Witness ==
    /\ \A s \in Strategies : Returned(s) /\ engines[s].ret.op = "calculate_layout"
    /\ \A s \in Strategies : DOMAIN PositionsOf(s) # {}
    /\ Len(graph.edges) >= 6
    /\ graph = GraphOf(df)

(***************************************************************************)
(* C13: the map HierarchicalLayout returns, and the map RadialLayout       *)
(* returns, for the graph assembled from a table is the map it returns for *)
(* the graph assembled from the same rows in any other order, and the map  *)
(* a repeated call returns is the map the first call returned.             *)
(***************************************************************************)
C13_OrderIndependent ==
    /\ (Returned("HierarchicalLayout") /\ buildCount = 1) =>
          \A t \in RowSwaps(df) :
              HierarchicalLayout(GraphOf(t), EmptyAttrs) = PositionsOf("HierarchicalLayout")
    /\ (Returned("RadialLayout") /\ buildCount = 1) =>
          \A t \in RowSwaps(df) :
              RadialLayout(GraphOf(t)).pos = PositionsOf("RadialLayout")

(***************************************************************************)
(* C14: on a graph without Package node RadialLayout.calculate_layout      *)
(* raises no error and returns the empty map.                              *)
(***************************************************************************)
C14_RadialWithoutPackage ==
    LET r == engines["RadialLayout"]
    IN NodesOfType(graph, "PACKAGE") = <<>> =>
          /\ r.err = "none"
          /\ r.pc # "failed"
          /\ Returned("RadialLayout") => r.ret.value = EmptyAttrs /\ r.positions = EmptyAttrs

C14_Witness ==
    /\ Returned("RadialLayout")
    /\ NodesOfType(graph, "PACKAGE") = <<>>
    /\ NodesOfType(graph, "COMPONENT") # <<>>
    /\ NodesOfType(graph, "FUNCTION_CLASS") # <<>>
    /\ engines["RadialLayout"].ret = [op |-> "calculate_layout", value |-> EmptyAttrs]

(***************************************************************************)
(* C15: on the empty graph, on a graph without Package node, on a graph    *)
(* without Component node and on a graph with a Package node without       *)
(* neighbours no strategy raises an error, and the map calculate_layout    *)
(* returns gives positions to nodes of the graph only.                     *)
(***************************************************************************)
C15_NoFailureOnEdgeCases ==
    EdgeCaseGraph(graph) =>
        \A s \in Strategies :
            /\ engines[s].err = "none"
            /\ engines[s].pc # "failed"
            /\ Returned(s) => DOMAIN PositionsOf(s) \subseteq GraphNodeKeys(graph)

C15_Witness ==
    /\ \A s \in Strategies : Returned(s) /\ engines[s].ret.op = "calculate_layout"
    /\ \E pkg \in PackagesOf(graph) : degree(graph, pkg) = 0
    /\ NodesOfType(graph, "COMPONENT") = <<>>
    /\ DOMAIN PositionsOf("RadialLayout") = PackagesOf(graph)

(***************************************************************************)
(* C16: whatever the interleaving of the steps of the engines of the three *)
(* strategies, the map each engine returns is the map the strategy gives   *)
(* for the graph when it runs alone on a new engine, and the graph is the  *)
(* graph the engines were given.                                           *)
(***************************************************************************)
C16_InterleavingFree ==
    /\ Returned("HierarchicalLayout") =>
          PositionsOf("HierarchicalLayout") = HierarchicalLayout(graph, EmptyAttrs)
    /\ Returned("SpringLayout") =>
          PositionsOf("SpringLayout") = SpringLayout(graph, EmptyAttrs)
    /\ Returned("RadialLayout") =>
          PositionsOf("RadialLayout") = RadialLayout(graph).pos
    /\ \A s \in Strategies :
          engines[s].ret.op = "calculate_layout" => engines[s].ret.value = PositionsOf(s)
    /\ graph \in HandGraphs \cup {GraphOf(df)}

C16_Witness ==
    /\ Returned("HierarchicalLayout")
    /\ engines["HierarchicalLayout"].ret.op = "calculate_layout"
    /\ engines["SpringLayout"].pc = "based"
    /\ engines["SpringLayout"].positions # EmptyAttrs
    /\ engines["RadialLayout"].pc = "centered"
    /\ Cardinality(DOMAIN PositionsOf("HierarchicalLayout")) >= 5
    /\ DOMAIN PositionsOf("HierarchicalLayout") # GraphNodeKeys(graph)

(***************************************************************************)
(* C20: in the map HierarchicalLayout returns, a Package node p has a      *)
(* smaller y than a Package node q whenever p has the larger degree        *)
(* (in-degree + out-degree), or the same degree and the smaller id.        *)
(***************************************************************************)
C20_PackagesByDegree ==
    Returned("HierarchicalLayout") =>
        \A p, q \in PackagesOf(graph) :
            (\/ degree(graph, p) > degree(graph, q)
             \/ degree(graph, p) = degree(graph, q) /\ Rank(p) < Rank(q)) =>
                PositionsOf("HierarchicalLayout")[p].y < PositionsOf("HierarchicalLayout")[q].y

(***************************************************************************)
(* C21: the selection of the components, in a direct call with cap M and   *)
(* in calculate_layout with cap 80, is the one that a scan of the          *)
(* Component nodes in ascending id order gives: packages in the order of   *)
(* their first component in that scan, the first 2 components of each in   *)
(* that order, stopping after the package that brings the selection to the *)
(* cap, the result sorted and cut to the cap.                              *)
(***************************************************************************)
C21_AscendingScan ==
    LET h == engines["HierarchicalLayout"]
        ascending == sorted(NodesOfType(graph, "COMPONENT"))
    IN /\ h.ret.op = "select" =>
            h.ret.value = select_representative_components(graph, ascending,
                                                           h.ret.max_components)
       /\ Returned("HierarchicalLayout") =>
            PositionedComponents(h.positions) =
                Range(select_representative_components(graph, ascending, DefaultMaxComponents))

(***************************************************************************)
(* C22: the map HierarchicalLayout returns has no Component node without   *)
(* usesPackage edge (nor has a selection made with any cap), has every     *)
(* PhysicalClass, FunctionClass and Package node of the graph, and has     *)
(* nodes of the graph only.                                                *)
(***************************************************************************)
C22_PositionedNodes ==
    LET h == engines["HierarchicalLayout"]
        Unpackaged(c) == \A pkg \in GraphNodeKeys(graph) : ~UsesPackage(c, pkg)
    IN /\ Returned("HierarchicalLayout") =>
            /\ \A c \in PositionedComponents(h.positions) : ~Unpackaged(c)
            /\ \A nt \in {"PHYSICAL_CLASS", "FUNCTION_CLASS", "PACKAGE"} :
                  Range(NodesOfType(graph, nt)) \subseteq DOMAIN h.positions
            /\ DOMAIN h.positions \subseteq GraphNodeKeys(graph)
       /\ h.ret.op = "select" =>
            \A c \in Range(h.ret.value) :
                c \in Range(NodesOfType(graph, "COMPONENT")) /\ ~Unpackaged(c)

C22_Witness ==
    LET h == engines["HierarchicalLayout"]
    IN /\ Returned("HierarchicalLayout")
       /\ h.ret.op = "calculate_layout"
       /\ \E c \in Range(NodesOfType(graph, "COMPONENT")) :
             /\ \A pkg \in GraphNodeKeys(graph) : ~UsesPackage(c, pkg)
             /\ c \notin DOMAIN h.positions
       /\ PositionedComponents(h.positions) # {}
       /\ Cardinality(DOMAIN h.positions) = 6

(***************************************************************************)
(* Views of the lanes.  Coordinates are in twentieths of a unit.           *)
(***************************************************************************)
\* the members of a set of ids in ascending order
Ascending(S) == SelectSeq(SortedIds, LAMBDA key : key \in S)

RECURSIVE SumY(_, _)
SumY(p, S) ==
    IF S = {} THEN 0
    ELSE LET key == CHOOSE k \in S : TRUE IN p[key].y + SumY(p, S \ {key})

\* the nodes of the list are at x, at y = base + (i - k/2 + 0.5) * spacing for
\* i = 0..k-1: consecutive nodes one spacing apart, their mean y at base
EvenlySpaced(p, members, x, base, spacing10) ==
    LET k == Len(members)
    IN /\ \A i \in 1..k :
             /\ members[i] \in DOMAIN p
             /\ p[members[i]].x = 20 * x
             /\ p[members[i]].y = base + (2 * (i - 1) - k + 1) * spacing10
       /\ \A i \in 1..(k - 1) : p[members[i + 1]].y - p[members[i]].y = 2 * spacing10
       /\ \A i, j \in 1..k : i # j => p[members[i]] # p[members[j]]
       /\ SumY(p, Range(members)) = k * base

OnRing(p, members, radius, start8) ==
    LET n == Len(members)
    IN \A i \in 1..n :
          /\ members[i] \in DOMAIN p
          /\ p[members[i]].radius = radius
          /\ p[members[i]].num * 8 * n = (start8 * n + 8 * (i - 1)) * p[members[i]].den

\* the type of node that a relation leads to
TargetTypeOf(relation) ==
    CASE relation = RelationTypeValue("USES_PACKAGE") -> NodeTypeValue("PACKAGE")
      [] relation = RelationTypeValue("HAS_FUNCTION") -> NodeTypeValue("FUNCTION_CLASS")
      [] relation = RelationTypeValue("HAS_PHYSICAL_TYPE") -> NodeTypeValue("PHYSICAL_CLASS")
      [] OTHER -> "none"

(***************************************************************************)
(* C25: on a graph with a Package node the map RadialLayout returns has    *)
(* at (0, 0) a Package node of the largest degree among the Package nodes, *)
(* has as keys that node, its predecessors and its successors and no other *)
(* node, has the predecessors on the ring of radius 3 from angle 0 and the *)
(* successors on the ring of radius 6 from angle pi/4, the i-th of n nodes *)
(* of a ring 2 pi i / n further.                                           *)
(***************************************************************************)
C25_RadialRings ==
    LET p == PositionsOf("RadialLayout")
    IN (Returned("RadialLayout") /\ PackagesOf(graph) # {}) =>
          \E center \in PackagesOf(graph) :
              /\ \A pkg \in PackagesOf(graph) : degree(graph, pkg) <= degree(graph, center)
              /\ center \in DOMAIN p
              /\ p[center] = [radius |-> 0, num |-> 0, den |-> 1]
              /\ DOMAIN p = {center} \cup Range(predecessors(graph, center))
                                      \cup Range(neighbors(graph, center))
              /\ OnRing(p, predecessors(graph, center), 3, 0)
              /\ OnRing(p, neighbors(graph, center), 6, 1)

C25_Witness ==
    LET p == PositionsOf("RadialLayout")
    IN /\ Returned("RadialLayout")
       /\ \E center \in PackagesOf(graph) :
             /\ center \in DOMAIN p
             /\ p[center].radius = 0
             /\ Len(predecessors(graph, center)) = 1
             /\ Len(neighbors(graph, center)) = 1
             /\ p[neighbors(graph, center)[1]] = [radius |-> 6, num |-> 1, den |-> 8]
             /\ p[predecessors(graph, center)[1]] = [radius |-> 3, num |-> 0, den |-> 8]

(***************************************************************************)
(* C26: in the graph a build assembles every edge leaves a Component node  *)
(* and enters a node of the type of its relation (usesPackage a Package,   *)
(* hasFunction a FunctionClass, hasPhysicalType a PhysicalClass node);     *)
(* every Package, FunctionClass and PhysicalClass node has no outgoing and *)
(* at least one incoming edge, every Component node no incoming edge.      *)
(***************************************************************************)
C26_EdgeKinds ==
    Built =>
        /\ \A i \in 1..Len(graph.edges) :
              LET e == graph.edges[i]
              IN /\ NodeGet(graph, e.source, "type") = NodeTypeValue("COMPONENT")
                 /\ NodeGet(graph, e.target, "type") = TargetTypeOf(e.data.relation)
        /\ \A i \in 1..Len(graph.nodes) :
              LET key == graph.nodes[i].id
              IN IF NodeGet(graph, key, "type") = NodeTypeValue("COMPONENT")
                 THEN Len(predecessors(graph, key)) = 0
                 ELSE Len(neighbors(graph, key)) = 0 /\ Len(predecessors(graph, key)) >= 1

C26_Witness ==
    /\ Built
    /\ buildCount = 2
    /\ Len(NodesOfType(graph, "COMPONENT")) = 2
    /\ Len(NodesOfType(graph, "PACKAGE")) = 2
    /\ Len(graph.edges) = 6
    /\ \E i \in 1..Len(graph.nodes) : Len(predecessors(graph, graph.nodes[i].id)) = 2

(***************************************************************************)
(* C27: for the graph a build assembles, the center RadialLayout chooses   *)
(* has no successor, and the map it returns has as keys the center and the *)
(* Component nodes with a usesPackage edge to it: no FunctionClass and no  *)
(* PhysicalClass node, and no node on the ring of radius 6.                *)
(***************************************************************************)
C27_OuterRingEmpty ==
    LET p == PositionsOf("RadialLayout")
    IN (Returned("RadialLayout") /\ buildCount = 1 /\ PackagesOf(graph) # {}) =>
          \E center \in PackagesOf(graph) :
              /\ center \in DOMAIN p
              /\ p[center].radius = 0
              /\ neighbors(graph, center) = <<>>
              /\ DOMAIN p = {center} \cup {c \in Range(NodesOfType(graph, "COMPONENT")) :
                                                UsesPackage(c, center)}
              /\ \A key \in DOMAIN p :
                    /\ NodeGet(graph, key, "type") \in
                          {NodeTypeValue("PACKAGE"), NodeTypeValue("COMPONENT")}
                    /\ p[key].radius # 6

C27_Witness ==
    LET p == PositionsOf("RadialLayout")
    IN /\ Returned("RadialLayout")
       /\ buildCount = 1
       /\ Len(NodesOfType(graph, "COMPONENT")) = 3
       /\ Len(NodesOfType(graph, "PACKAGE")) = 2
       /\ Cardinality(DOMAIN p) = 4
       /\ Cardinality({key \in DOMAIN p : p[key].radius = 3}) = 3

====
